---- MODULE Spec2Model ----
(***************************************************************************)
(* The archive handle of src/utils/Archive.cpp (class Archive) and the     *)
(* UnRAR fallback (class UnRarDll), as state machines.                     *)
(*                                                                         *)
(* One Archive object is modelled.  The codec library (unarr) and the      *)
(* UnRAR engine are collaborators: they are modelled by the contract the   *)
(* code relies on (open / parse next entry / seek to offset / decompress   *)
(* / close), as pure operators on a decoder value.                         *)
(***************************************************************************)
EXTENDS Integers, Sequences, FiniteSets, TLC

VARIABLES
    format,            \* Archive::format
    phase,             \* "live" | "destroyed" | "crashed" (CrashIf fired)
    data_,             \* Archive::data_   (stream id, Null when nullptr)
    ar_,               \* Archive::ar_     (decoder id, Null when nullptr)
    fileInfos_,        \* Archive::fileInfos_
    fallback,          \* number of UnRarDll objects the handle has allocated
    RARGetDllVersion,  \* the static entry point: 0 when not loaded, else the version it returns
    dec,               \* state of the decoder behind ar_ (container, cursor, bytes done)
    opens,             \* number of Open calls made on the handle
    acquired,          \* resources handed to / created by the handle
    released,          \* log of the releases, in order
    lastOpen,          \* what the last Open call saw and returned
    ret,               \* result of the last operation
    calls,             \* decoder calls made by the last operation, in order
    memo,              \* one remembered extraction result of the current open
    rar,               \* UnRarDll: the archive the engine reads (fallback specification)
    filenames,         \* UnRarDll: the WStrList handed to ExtractFilenames
    hArc               \* UnRarDll: engine handles the last call opened and closed

vars == <<format, phase, data_, ar_, fileInfos_, fallback, RARGetDllVersion, dec, opens,
          acquired, released, lastOpen, ret, calls, memo, rar, filenames, hArc>>

unrarVars == <<rar, filenames, hArc>>

-----------------------------------------------------------------------------
(* Bounds of the model *)

MaxEntries == 2     \* entries in one container
MaxOpens == 1       \* Open calls on the handle
MaxReopens == 2     \* Open calls on the handle where Open is called again
MaxHeaders == 2     \* file headers in the archive the UnRAR engine reads
SizeBits == 3       \* width of size_t

(* Program constants *)

Null == 0
PadBytes == 3
RAR_DLL_VERSION == 6

SIZE_MAX == 2^SizeBits - 1
Indeterminate == 0 - 1   \* content of a malloc'ed byte that was never written
NoLen == 0 - 1           \* no length was reported

Formats == {"Zip", "SevenZip", "Tar", "Rar"}

-----------------------------------------------------------------------------
(* Strings: sequences of characters, so that case folding and separator    *)
(* translation act on characters.                                          *)

Lower(c) == CASE c = "A" -> "a" [] c = "B" -> "b" [] OTHER -> c

ToLower(s) == [i \in 1..Len(s) |-> Lower(s[i])]

EqI(s, t) == ToLower(s) = ToLower(t)

TransChars(s, from, to) == [i \in 1..Len(s) |-> IF s[i] = from THEN to ELSE s[i]]

-----------------------------------------------------------------------------
(* The codec collaborator.  A container is what a stream holds: whether    *)
(* the opener accepts it, whether the decoder is at end-of-data right      *)
(* after opening, the entries ar_parse_entry yields in order, and how the  *)
(* enumeration ends ("eof": end of data, "error": a structural error).     *)

Bytes(n, b) == [i \in 1..n |-> b + i]

E_a == [name |-> <<"a">>, named |-> TRUE, size |-> 2, data |-> Bytes(2, 10),
        time |-> 1, seekOk |-> TRUE, corrupt |-> FALSE]

E_A0 == [name |-> <<"A">>, named |-> TRUE, size |-> 0, data |-> <<>>,
         time |-> 2, seekOk |-> TRUE, corrupt |-> FALSE]

E_big == [name |-> <<>>, named |-> FALSE, size |-> SIZE_MAX - 2, data |-> Bytes(SIZE_MAX - 2, 30),
          time |-> 3, seekOk |-> TRUE, corrupt |-> FALSE]

E_edge == [name |-> <<"B", "/", "a">>, named |-> TRUE, size |-> SIZE_MAX - 3,
           data |-> Bytes(SIZE_MAX - 3, 40), time |-> 4, seekOk |-> TRUE, corrupt |-> FALSE]

E_noseek == [name |-> <<"b">>, named |-> TRUE, size |-> 1, data |-> Bytes(1, 50),
             time |-> 5, seekOk |-> FALSE, corrupt |-> FALSE]

E_corrupt == [name |-> <<"b">>, named |-> TRUE, size |-> 1, data |-> Bytes(1, 60),
              time |-> 6, seekOk |-> TRUE, corrupt |-> TRUE]

\* the entries containers are cut from: every run of at most MaxEntries consecutive
\* entries of this sequence is the entry list of a container
EntryMaster == <<E_a, E_A0, E_edge, E_corrupt, E_big, E_noseek>>

EntryLists ==
    {SubSeq(EntryMaster, w[1], w[1] + w[2] - 1) :
        w \in {v \in (1..Len(EntryMaster)) \X (0..MaxEntries) :
                  v[1] + v[2] - 1 <= Len(EntryMaster)}}

Containers ==
    {[kind |-> "bad", entries |-> <<>>, tail |-> "eof"],
     [kind |-> "eofAtOpen", entries |-> <<>>, tail |-> "eof"]}
    \cup [kind : {"ok"}, entries : EntryLists, tail : {"eof", "error"}]

NoContainer == [kind |-> "bad", entries |-> <<>>, tail |-> "eof"]

NoDecoder == [c |-> NoContainer, cur |-> 0, done |-> 0]

\* opener_(data): nullptr when the container is not of the format
OpenerOk(c) == c.kind # "bad"

\* ar_at_eof right after opening
ar_at_eof(c) == c.kind = "eofAtOpen"

\* the offset token of the i-th entry (opaque to the handle)
OffsetOf(i) == 2 * i + 1

\* ar_parse_entry when i entries were parsed so far: TRUE iff there is a next entry
ar_parse_entry(c, i) == i < Len(c.entries)

\* a const char*: null, or a string
ar_entry_get_name(c, i) == [null |-> ~c.entries[i].named, s |-> c.entries[i].name]

ar_entry_get_size(c, i) == c.entries[i].size

ar_entry_get_offset(c, i) == OffsetOf(i)

ar_entry_get_filetime(c, i) == c.entries[i].time

\* ar_parse_entry_at: reposition the decoder on the entry recorded at offset pos
ar_parse_entry_at(d, pos) ==
    LET hit == {i \in 1..Len(d.c.entries) : OffsetOf(i) = pos /\ d.c.entries[i].seekOk}
    IN  IF hit = {}
        THEN [ok |-> FALSE, d |-> [d EXCEPT !.cur = 0, !.done = 0]]
        ELSE [ok |-> TRUE, d |-> [d EXCEPT !.cur = CHOOSE i \in hit : TRUE, !.done = 0]]

\* ar_entry_uncompress: the next count bytes of the current entry
ar_entry_uncompress(d, count) ==
    IF d.cur = 0 \/ d.c.entries[d.cur].corrupt
       \/ count > Len(d.c.entries[d.cur].data) - d.done
    THEN [ok |-> FALSE, bytes |-> <<>>, d |-> d]
    ELSE [ok |-> TRUE,
          bytes |-> SubSeq(d.c.entries[d.cur].data, d.done + 1, d.done + count),
          d |-> [d EXCEPT !.done = d.done + count]]

-----------------------------------------------------------------------------
(* Archive *)

NoRet == [op |-> "none", name |-> <<>>, arg |-> 0, ok |-> FALSE, err |-> "none",
          len |-> NoLen, buf |-> <<>>]

NoOpen == [ret |-> FALSE, stage |-> "none", parsed |-> 0, tail |-> "none", rar |-> FALSE,
           ar |-> Null, table |-> <<>>]

NoMemo == [set |-> FALSE, id |-> 0, ok |-> FALSE, err |-> "none", len |-> NoLen, buf |-> <<>>,
           other |-> FALSE]

\* no archive for the UnRAR engine
NoRar == [openOk |-> FALSE, headers |-> <<>>]

Init ==
    /\ format \in Formats
    /\ phase = "live"
    /\ data_ = Null
    /\ ar_ = Null
    /\ fileInfos_ = <<>>
    /\ fallback = 0
    /\ RARGetDllVersion = 0
    /\ dec = NoDecoder
    /\ opens = 0
    /\ acquired = <<>>
    /\ released = <<>>
    /\ lastOpen = NoOpen
    /\ ret = NoRet
    /\ calls = <<>>
    /\ memo = NoMemo
    /\ rar = NoRar
    /\ filenames = <<>>
    /\ hArc = [opened |-> 0, closed |-> 0]

-----------------------------------------------------------------------------
(* Archive::Open *)

DllVersions == {0, RAR_DLL_VERSION - 1, RAR_DLL_VERSION, RAR_DLL_VERSION + 1}

\* UnRarDll::UnRarDll(): loads the engine once per process, when it is present
\* (dll = 0: no unrar.dll, or one of its entry points is missing)
UnRarDllCtor(loaded, dll) == IF loaded = 0 THEN dll ELSE loaded

\* variant: the fallback is reported as activated once it is allocated
OpenUnrarFallback_Activated == TRUE

\* Archive::OpenUnrarFallback: its return value
OpenUnrarFallback == FALSE

\* one FileInfo, as the loop body of Open fills it in for the entry the decoder is on
NewFileInfo(c, i, fileId) ==
    LET name == ar_entry_get_name(c, i)
    IN  [fileId |-> fileId,
         fileSizeUncompressed |-> ar_entry_get_size(c, i),
         filePos |-> ar_entry_get_offset(c, i),
         fileTime |-> ar_entry_get_filetime(c, i),
         name |-> IF name.null THEN <<>> ELSE name.s]

\* the while loop of Open: i entries parsed so far, fileId the next id
RECURSIVE ParseLoop(_, _, _, _)
ParseLoop(c, i, fileId, infos) ==
    IF ar_parse_entry(c, i)
    THEN ParseLoop(c, i + 1, (fileId + 1) % (SIZE_MAX + 1),
                   Append(infos, NewFileInfo(c, i + 1, fileId)))
    ELSE infos

OpenBody(hasData, c) ==
    /\ phase = "live"
    /\ opens' = opens + 1
    /\ ret' = NoRet
    /\ calls' = <<>>
    /\ memo' = NoMemo
    /\ UNCHANGED <<format, phase, released, unrarVars>>
    /\ IF ~hasData
       THEN /\ data_' = Null
            /\ lastOpen' = [ret |-> FALSE, stage |-> "null", parsed |-> 0, tail |-> "none",
                            rar |-> FALSE, ar |-> ar_, table |-> fileInfos_]
            /\ UNCHANGED <<ar_, dec, fileInfos_, fallback, RARGetDllVersion, acquired>>
       ELSE /\ data_' = opens + 1
            /\ IF ~OpenerOk(c) \/ ar_at_eof(c)
               THEN /\ ar_' = IF OpenerOk(c) THEN opens + 1 ELSE Null
                    /\ dec' = IF OpenerOk(c) THEN [c |-> c, cur |-> 0, done |-> 0] ELSE NoDecoder
                    /\ acquired' = acquired \o <<<<"stream", opens + 1>>>>
                                     \o (IF OpenerOk(c) THEN <<<<"ar", opens + 1>>>> ELSE <<>>)
                    /\ UNCHANGED fileInfos_
                    /\ IF format = "Rar"
                       THEN /\ fallback' = fallback + 1
                            /\ \E dll \in DllVersions :
                                   RARGetDllVersion' = UnRarDllCtor(RARGetDllVersion, dll)
                            /\ lastOpen' = [ret |-> OpenUnrarFallback,
                                            stage |-> IF OpenerOk(c) THEN "eofAtOpen" ELSE "openfail",
                                            parsed |-> 0, tail |-> "none", rar |-> TRUE,
                                            ar |-> ar_', table |-> fileInfos_]
                       ELSE /\ lastOpen' = [ret |-> FALSE,
                                            stage |-> IF OpenerOk(c) THEN "eofAtOpen" ELSE "openfail",
                                            parsed |-> 0, tail |-> "none", rar |-> FALSE,
                                            ar |-> ar_', table |-> fileInfos_]
                            /\ UNCHANGED <<fallback, RARGetDllVersion>>
               ELSE /\ ar_' = opens + 1
                    /\ dec' = [c |-> c, cur |-> 0, done |-> 0]
                    /\ acquired' = acquired \o <<<<"stream", opens + 1>>, <<"ar", opens + 1>>>>
                    /\ fileInfos_' = ParseLoop(c, 0, 0, fileInfos_)
                    /\ lastOpen' = [ret |-> TRUE, stage |-> "parsed", parsed |-> Len(c.entries),
                                    tail |-> c.tail, rar |-> FALSE,
                                    ar |-> ar_', table |-> fileInfos_']
                    /\ UNCHANGED <<fallback, RARGetDllVersion>>

Open(hasData, c) == opens < MaxOpens /\ OpenBody(hasData, c)

\* Open called on a handle that was opened before
Reopen(hasData, c) == opens < MaxReopens /\ OpenBody(hasData, c)

-----------------------------------------------------------------------------
(* Archive::~Archive *)

\* ar_close_archive / ar_close: nothing to do for a null pointer
CloseArchive(ar) == IF ar = Null THEN <<>> ELSE <<<<"ar", ar>>>>

CloseStream(data) == IF data = Null THEN <<>> ELSE <<<<"stream", data>>>>

Destroy ==
    /\ phase = "live"
    /\ phase' = "destroyed"
    /\ released' = released \o CloseArchive(ar_) \o CloseStream(data_)
    /\ ret' = NoRet
    /\ calls' = <<>>
    /\ UNCHANGED <<format, data_, ar_, fileInfos_, fallback, RARGetDllVersion, dec, opens,
                   acquired, lastOpen, memo, unrarVars>>

-----------------------------------------------------------------------------
(* Lookup by name *)

NotFound == SIZE_MAX    \* (size_t)-1

\* loop variant: a later match replaces an earlier one
RECURSIVE getFileIdFrom_Last(_, _, _)
getFileIdFrom_Last(fileInfos, name, i) ==
    IF i > Len(fileInfos) THEN NotFound
    ELSE LET later == getFileIdFrom_Last(fileInfos, name, i + 1)
         IN  IF later # NotFound THEN later
             ELSE IF EqI(fileInfos[i].name, name) THEN fileInfos[i].fileId
             ELSE NotFound

\* getFileIdByName: the loop over fileInfos, from position i on
RECURSIVE getFileIdFrom(_, _, _)
getFileIdFrom(fileInfos, name, i) ==
    IF i > Len(fileInfos) THEN NotFound
    ELSE IF EqI(fileInfos[i].name, name) THEN fileInfos[i].fileId
    ELSE getFileIdFrom(fileInfos, name, i + 1)

getFileIdByName(fileInfos, name) == getFileIdFrom(fileInfos, name, 1)

QueryNames == {<<"A">>, <<"b">>, <<"b", "/", "A">>, <<>>, <<"z">>}

-----------------------------------------------------------------------------
(* Archive::GetFileDataById *)

Malloc(n) == [i \in 1..n |-> Indeterminate]

\* the decoder writes the bytes at the start of the caller's buffer
Store(buf, bytes) == [i \in 1..Len(buf) |-> IF i <= Len(bytes) THEN bytes[i] ELSE buf[i]]

\* data[size] = 0; data[size + 1] = 0; data[size + 2] = 0 (C indices)
Terminate(buf, size) == [buf EXCEPT ![size + 1] = 0, ![size + 2] = 0, ![size + 3] = 0]

\* mutant: the padding is counted in the reported length
ReportLen_Padded(hasLen, size) == IF hasLen THEN size + PadBytes ELSE NoLen

\* if (len) *len = size  (NoLen: the caller passed no len)
ReportLen(hasLen, size) == IF hasLen THEN size ELSE NoLen

\* variant: the guard is taken on the size alone, not on the size plus the padding
SizeOverflows_NoPadding(size) == size > SIZE_MAX

\* mutant: the guard also rejects the largest size that fits
SizeOverflows_OffByOne(size) == size >= SIZE_MAX - PadBytes

\* size > SIZE_MAX - 3
SizeOverflows(size) == size > SIZE_MAX - PadBytes

\* malloc(size + 3), the sum taken in size_t
AllocSize(size) == (size + PadBytes) % (SIZE_MAX + 1)

\* mutant: the seek is skipped when the decoder already stands on an entry
SeekEntry_Lazy(d, fileInfo) ==
    IF d.cur # 0 THEN [ok |-> TRUE, d |-> d] ELSE ar_parse_entry_at(d, fileInfo.filePos)

\* auto filePos = fileInfo->filePos; ar_parse_entry_at(ar_, filePos)
SeekEntry(d, fileInfo) == ar_parse_entry_at(d, fileInfo.filePos)

SeekCall(ar, fileInfo, ok) ==
    [fn |-> "ar_parse_entry_at", ar |-> ar, arg |-> fileInfo.filePos, ok |-> ok]

UncompressCall(ar, size, ok) ==
    [fn |-> "ar_entry_uncompress", ar |-> ar, arg |-> size, ok |-> ok]

Failure(err, d, cs) ==
    [crash |-> FALSE, ok |-> FALSE, err |-> err, len |-> NoLen, buf |-> <<>>, d |-> d, calls |-> cs]

\* guard variant: one past the last id is let through
OutOfRange_OffByOne(fileInfos, fileId) == fileId > Len(fileInfos)

\* fileId >= fileInfos_.size()
OutOfRange(fileInfos, fileId) == fileId >= Len(fileInfos)

\* what a read past the end of the vector yields: no record of the table
OutOfBounds == [fileId |-> Indeterminate, fileSizeUncompressed |-> 0, filePos |-> 0,
                fileTime |-> 0, name |-> <<>>]

\* fileInfos_[fileId] (C index)
ReadEntry(fileInfos, fileId) ==
    IF fileId < Len(fileInfos) THEN fileInfos[fileId + 1] ELSE OutOfBounds

\* body variant: the result of the seek is not looked at
ExtractById_IgnoreSeek(ar, fileInfos, d, fileId, hasLen, mallocOk) ==
    IF ar = Null \/ OutOfRange(fileInfos, fileId)
    THEN Failure("notfound", d, <<>>)
    ELSE LET fileInfo == ReadEntry(fileInfos, fileId)
             size == fileInfo.fileSizeUncompressed
             sk == SeekEntry(d, fileInfo)
             un == ar_entry_uncompress(sk.d, size)
         IN  IF fileInfo.fileId # fileId
             THEN [Failure("crash", d, <<>>) EXCEPT !.crash = TRUE]
             ELSE IF SizeOverflows(size)
             THEN Failure("overflow", sk.d, <<SeekCall(ar, fileInfo, sk.ok)>>)
             ELSE IF ~mallocOk
             THEN Failure("nomem", sk.d, <<SeekCall(ar, fileInfo, sk.ok)>>)
             ELSE IF ~un.ok
             THEN Failure("decode", un.d,
                          <<SeekCall(ar, fileInfo, sk.ok), UncompressCall(ar, size, FALSE)>>)
             ELSE [crash |-> FALSE, ok |-> TRUE, err |-> "none",
                   len |-> ReportLen(hasLen, size),
                   buf |-> Terminate(Store(Malloc(AllocSize(size)), un.bytes), size),
                   d |-> un.d,
                   calls |-> <<SeekCall(ar, fileInfo, sk.ok), UncompressCall(ar, size, TRUE)>>]

\* the body of GetFileDataById on a handle whose fields are ar, fileInfos and whose
\* decoder is in state d; mallocOk: whether malloc returns a buffer
ExtractById(ar, fileInfos, d, fileId, hasLen, mallocOk) ==
    IF ar = Null \/ OutOfRange(fileInfos, fileId)
    THEN Failure("notfound", d, <<>>)
    ELSE LET fileInfo == ReadEntry(fileInfos, fileId)
             size == fileInfo.fileSizeUncompressed
             sk == SeekEntry(d, fileInfo)
             un == ar_entry_uncompress(sk.d, size)
         IN  IF fileInfo.fileId # fileId
             THEN [Failure("crash", d, <<>>) EXCEPT !.crash = TRUE]
             ELSE IF ~sk.ok
             THEN Failure("seek", sk.d, <<SeekCall(ar, fileInfo, FALSE)>>)
             ELSE IF SizeOverflows(size)
             THEN Failure("overflow", sk.d, <<SeekCall(ar, fileInfo, TRUE)>>)
             ELSE IF ~mallocOk
             THEN Failure("nomem", sk.d, <<SeekCall(ar, fileInfo, TRUE)>>)
             ELSE IF ~un.ok
             THEN Failure("decode", un.d,
                          <<SeekCall(ar, fileInfo, TRUE), UncompressCall(ar, size, FALSE)>>)
             ELSE [crash |-> FALSE, ok |-> TRUE, err |-> "none",
                   len |-> ReportLen(hasLen, size),
                   buf |-> Terminate(Store(Malloc(AllocSize(size)), un.bytes), size),
                   d |-> un.d,
                   calls |-> <<SeekCall(ar, fileInfo, TRUE), UncompressCall(ar, size, TRUE)>>]

\* the handle after an extraction call that produced r
Extracted(op, name, fileId, hasLen, r, remember) ==
    /\ phase' = IF r.crash THEN "crashed" ELSE phase
    /\ dec' = r.d
    /\ calls' = r.calls
    /\ ret' = [op |-> op, name |-> name, arg |-> fileId,
               ok |-> r.ok, err |-> r.err, len |-> r.len, buf |-> r.buf]
    /\ memo' = IF remember /\ ~memo.set /\ ~r.crash
               THEN [set |-> TRUE, id |-> fileId, ok |-> r.ok, err |-> r.err,
                     len |-> r.len, buf |-> r.buf, other |-> FALSE]
               ELSE IF memo.set /\ fileId # memo.id
               THEN [memo EXCEPT !.other = TRUE]
               ELSE memo
    /\ UNCHANGED <<format, data_, ar_, fileInfos_, fallback, RARGetDllVersion, opens,
                   acquired, released, lastOpen, unrarVars>>

\* the ids a caller asks for: those of the table, one past them, and (size_t)-1
FileIds == 0..Len(fileInfos_) \cup {NotFound}

GetFileDataById(fileId, hasLen, mallocOk, remember) ==
    /\ phase = "live"
    /\ Extracted("GetFileDataById", <<>>, fileId, hasLen,
                 ExtractById(ar_, fileInfos_, dec, fileId, hasLen, mallocOk), remember)

GetFileDataByName(fileName, hasLen, mallocOk, remember) ==
    /\ phase = "live"
    /\ LET fileId == getFileIdByName(fileInfos_, fileName)
       IN  Extracted("GetFileDataByName", fileName, fileId, hasLen,
                     ExtractById(ar_, fileInfos_, dec, fileId, hasLen, mallocOk), remember)

\* Archive::GetFileId
GetFileId(fileName) ==
    /\ phase = "live"
    /\ ret' = [op |-> "GetFileId", name |-> fileName, arg |-> getFileIdByName(fileInfos_, fileName),
               ok |-> TRUE, err |-> "none", len |-> NoLen, buf |-> <<>>]
    /\ calls' = <<>>
    /\ UNCHANGED <<format, phase, data_, ar_, fileInfos_, fallback, RARGetDllVersion, dec, opens,
                   acquired, released, lastOpen, memo, unrarVars>>

\* variant: the listing puts the table in the reverse order before handing it out
GetFileInfos_Reversing ==
    /\ phase = "live"
    /\ fileInfos_' = [i \in 1..Len(fileInfos_) |-> fileInfos_[Len(fileInfos_) + 1 - i]]
    /\ ret' = [op |-> "GetFileInfos", name |-> <<>>, arg |-> Len(fileInfos_),
               ok |-> TRUE, err |-> "none", len |-> NoLen, buf |-> fileInfos_']
    /\ calls' = <<>>
    /\ UNCHANGED <<format, phase, data_, ar_, fallback, RARGetDllVersion, dec, opens,
                   acquired, released, lastOpen, memo, unrarVars>>

\* Archive::GetFileInfos: a reference to the table
GetFileInfos ==
    /\ phase = "live"
    /\ ret' = [op |-> "GetFileInfos", name |-> <<>>, arg |-> Len(fileInfos_),
               ok |-> TRUE, err |-> "none", len |-> NoLen, buf |-> fileInfos_]
    /\ calls' = <<>>
    /\ UNCHANGED <<format, phase, data_, ar_, fileInfos_, fallback, RARGetDllVersion, dec, opens,
                   acquired, released, lastOpen, memo, unrarVars>>

Next ==
    \/ \E hasData \in BOOLEAN, c \in Containers : Open(hasData, c)
    \/ \E fileId \in FileIds, hasLen \in BOOLEAN, mallocOk \in BOOLEAN :
           GetFileDataById(fileId, hasLen, mallocOk, FALSE)
    \/ \E fileName \in QueryNames, hasLen \in BOOLEAN, mallocOk \in BOOLEAN :
           GetFileDataByName(fileName, hasLen, mallocOk, FALSE)
    \/ \E fileName \in QueryNames : GetFileId(fileName)
    \/ GetFileInfos
    \/ Destroy

Spec == Init /\ [][Next]_vars

\* the same handle, with one extraction result of the current open remembered
NextIdem ==
    \/ \E hasData \in BOOLEAN, c \in Containers : Open(hasData, c)
    \/ \E fileId \in FileIds, hasLen \in BOOLEAN, mallocOk \in BOOLEAN,
          remember \in (IF memo.set THEN {FALSE} ELSE BOOLEAN) :
           GetFileDataById(fileId, hasLen, mallocOk, remember)

SpecIdem == Init /\ [][NextIdem]_vars

\* the same handle, with Open called again on it
NextReopen ==
    \/ \E hasData \in BOOLEAN, c \in Containers : Reopen(hasData, c)
    \/ \E fileId \in FileIds, hasLen \in BOOLEAN, mallocOk \in BOOLEAN :
           GetFileDataById(fileId, hasLen, mallocOk, FALSE)
    \/ Destroy

SpecReopen == Init /\ [][NextReopen]_vars

-----------------------------------------------------------------------------
(* Calls on the handle after ~Archive.  The destructor releases the decoder and the    *)
(* stream and leaves ar_, data_ and fileInfos_ as they were; a later call reads the     *)
(* members of a destroyed object, which is undefined: it may see the stale values, see  *)
(* a null decoder pointer, or crash.                                                    *)

UseAfterOutcomes == {"stale", "null", "crash"}

SeenAr(outcome) == IF outcome = "null" THEN Null ELSE ar_

Crashed(op, name, fileId) ==
    /\ phase' = "crashed"
    /\ ret' = [op |-> op, name |-> name, arg |-> fileId, ok |-> FALSE, err |-> "crash",
               len |-> NoLen, buf |-> <<>>]
    /\ calls' = <<>>
    /\ UNCHANGED <<format, data_, ar_, fileInfos_, fallback, RARGetDllVersion, dec, opens,
                   acquired, released, lastOpen, memo, unrarVars>>

ClosedGetFileDataById(fileId, hasLen, mallocOk, outcome) ==
    /\ phase = "destroyed"
    /\ IF outcome = "crash"
       THEN Crashed("GetFileDataById", <<>>, fileId)
       ELSE Extracted("GetFileDataById", <<>>, fileId, hasLen,
                      ExtractById(SeenAr(outcome), fileInfos_, dec, fileId, hasLen, mallocOk),
                      FALSE)

ClosedGetFileDataByName(fileName, hasLen, mallocOk, outcome) ==
    /\ phase = "destroyed"
    /\ LET fileId == getFileIdByName(fileInfos_, fileName)
       IN  IF outcome = "crash"
           THEN Crashed("GetFileDataByName", fileName, fileId)
           ELSE Extracted("GetFileDataByName", fileName, fileId, hasLen,
                          ExtractById(SeenAr(outcome), fileInfos_, dec, fileId, hasLen, mallocOk),
                          FALSE)

ClosedGetFileInfos ==
    /\ phase = "destroyed"
    /\ ret' = [op |-> "GetFileInfos", name |-> <<>>, arg |-> Len(fileInfos_),
               ok |-> TRUE, err |-> "none", len |-> NoLen, buf |-> fileInfos_]
    /\ calls' = <<>>
    /\ UNCHANGED <<format, phase, data_, ar_, fileInfos_, fallback, RARGetDllVersion, dec, opens,
                   acquired, released, lastOpen, memo, unrarVars>>

NextClosed ==
    \/ Next
    \/ \E fileId \in FileIds, hasLen \in BOOLEAN, mallocOk \in BOOLEAN,
          outcome \in UseAfterOutcomes :
           ClosedGetFileDataById(fileId, hasLen, mallocOk, outcome)
    \/ \E fileName \in QueryNames, hasLen \in BOOLEAN, mallocOk \in BOOLEAN,
          outcome \in UseAfterOutcomes :
           ClosedGetFileDataByName(fileName, hasLen, mallocOk, outcome)
    \/ ClosedGetFileInfos

SpecClosed == Init /\ [][NextClosed]_vars

-----------------------------------------------------------------------------
(* Archive::GetComment.  What the decoder reports for the archive's global comment is   *)
(* an input of the call: its length (0: no comment, (size_t)-1: an error) and the       *)
(* number of bytes the second call copies.                                              *)

CommentLens == {0, 1, 2, SIZE_MAX}

CommentBytes(n) == Bytes(n, 100)

CommentCall(ar, count, result) ==
    [fn |-> "ar_get_global_comment", ar |-> ar, arg |-> count, ok |-> result = count]

CommentRet(ok, err, commentLen, len, buf) ==
    [op |-> "GetComment", name |-> <<>>, arg |-> commentLen, ok |-> ok, err |-> err,
     len |-> len, buf |-> buf]

\* commentLen: result of ar_get_global_comment(ar_, nullptr, 0); read: result of
\* ar_get_global_comment(ar_, comment, commentLen)
GetComment(commentLen, read, hasLen, mallocOk) ==
    /\ phase = "live"
    /\ UNCHANGED <<format, phase, data_, ar_, fileInfos_, fallback, RARGetDllVersion, dec, opens,
                   acquired, released, lastOpen, memo, unrarVars>>
    /\ IF ar_ = Null
       THEN /\ ret' = CommentRet(FALSE, "noar", 0, NoLen, <<>>)
            /\ calls' = <<>>
       ELSE IF commentLen = 0 \/ commentLen = SIZE_MAX
       THEN /\ ret' = CommentRet(FALSE, "absent", commentLen, NoLen, <<>>)
            /\ calls' = <<CommentCall(ar_, 0, 0)>>
       ELSE IF ~mallocOk
       THEN /\ ret' = CommentRet(FALSE, "nomem", commentLen, NoLen, <<>>)
            /\ calls' = <<CommentCall(ar_, 0, 0)>>
       ELSE IF read # commentLen
       THEN /\ ret' = CommentRet(FALSE, "read", commentLen, NoLen, <<>>)
            /\ calls' = <<CommentCall(ar_, 0, 0), CommentCall(ar_, commentLen, read)>>
       ELSE /\ ret' = CommentRet(TRUE, "none", commentLen, ReportLen(hasLen, commentLen),
                                 Append(CommentBytes(commentLen), 0))
            /\ calls' = <<CommentCall(ar_, 0, 0), CommentCall(ar_, commentLen, read)>>

\* Open as the factory functions call it: once, on the handle just constructed
OpenFresh(hasData, c) == opens = 0 /\ OpenBody(hasData, c)

\* every operation of the handle
NextComment ==
    \/ \E hasData \in BOOLEAN, c \in Containers : OpenFresh(hasData, c)
    \/ \E fileId \in FileIds, hasLen \in BOOLEAN, mallocOk \in BOOLEAN :
           GetFileDataById(fileId, hasLen, mallocOk, FALSE)
    \/ \E fileName \in QueryNames, hasLen \in BOOLEAN, mallocOk \in BOOLEAN :
           GetFileDataByName(fileName, hasLen, mallocOk, FALSE)
    \/ \E fileName \in QueryNames : GetFileId(fileName)
    \/ GetFileInfos
    \/ Destroy
    \/ \E commentLen \in CommentLens, hasLen \in BOOLEAN, mallocOk \in BOOLEAN :
           \E read \in {commentLen, 0} : GetComment(commentLen, read, hasLen, mallocOk)

SpecComment == Init /\ [][NextComment]_vars

-----------------------------------------------------------------------------
(* UnRarDll.  The engine reads an archive: whether RAROpenArchiveEx opens it, and the    *)
(* file headers RARReadHeaderEx yields in order; for each header, the bytes the engine   *)
(* hands to the callback when the file is processed with RAR_TEST and the result of      *)
(* RARProcessFile.                                                                       *)

H_dir == [FileNameW |-> <<"B", "\\", "a">>, UnpSize |-> 2, UnpSizeHigh |-> 0,
          data |-> Bytes(2, 70), res |-> 0]

H_empty == [FileNameW |-> <<"a">>, UnpSize |-> 0, UnpSizeHigh |-> 0, data |-> <<>>, res |-> 0]

H_short == [FileNameW |-> <<"A">>, UnpSize |-> 2, UnpSizeHigh |-> 0,
            data |-> Bytes(1, 80), res |-> 0]

H_huge == [FileNameW |-> <<"b">>, UnpSize |-> 1, UnpSizeHigh |-> 1,
           data |-> Bytes(1, 90), res |-> 0]

H_bad == [FileNameW |-> <<"b">>, UnpSize |-> 1, UnpSizeHigh |-> 0,
          data |-> Bytes(1, 20), res |-> 1]

HeaderMaster == <<H_dir, H_empty, H_short, H_huge, H_bad, H_dir>>

HeaderLists ==
    {SubSeq(HeaderMaster, w[1], w[1] + w[2] - 1) :
        w \in {v \in (1..Len(HeaderMaster)) \X (0..MaxHeaders) :
                  v[1] + v[2] - 1 <= Len(HeaderMaster)}}

RarArchives == [openOk : BOOLEAN, headers : HeaderLists]

\* the engine can be used: its entry points are loaded and its version is not too old
EngineUsable(hasPath) ==
    ~(RARGetDllVersion = 0 \/ RARGetDllVersion < RAR_DLL_VERSION \/ ~hasPath)

\* str::TransChars(rarHeader.FileNameW, L"\\", L"/")
HeaderName(h) == TransChars(h.FileNameW, "\\", "/")

\* loop variant: every name read is appended, whatever the list holds
RECURSIVE ListNames_AppendAll(_, _, _)
ListNames_AppendAll(headers, idx, names) ==
    IF idx >= Len(headers) THEN [crash |-> FALSE, names |-> names]
    ELSE ListNames_AppendAll(headers, idx + 1, Append(names, HeaderName(headers[idx + 1])))

\* the header loop of ExtractFilenames, idx headers read so far: the list, or a crash
RECURSIVE ListNames(_, _, _)
ListNames(headers, idx, names) ==
    IF idx >= Len(headers) THEN [crash |-> FALSE, names |-> names]
    ELSE IF Len(names) = idx
    THEN ListNames(headers, idx + 1, Append(names, HeaderName(headers[idx + 1])))
    ELSE IF names[idx + 1] # HeaderName(headers[idx + 1])
    THEN [crash |-> TRUE, names |-> names]
    ELSE ListNames(headers, idx + 1, names)

\* UnRarDll::ExtractFilenames
ExtractFilenames(hasPath) ==
    /\ phase = "live"
    /\ calls' = <<>>
    /\ UNCHANGED <<format, data_, ar_, fileInfos_, fallback, RARGetDllVersion, dec, opens,
                   acquired, released, lastOpen, memo, rar>>
    /\ IF ~EngineUsable(hasPath) \/ ~rar.openOk
       THEN /\ ret' = [op |-> "ExtractFilenames", name |-> <<>>, arg |-> Len(filenames), ok |-> FALSE,
                       err |-> "none", len |-> NoLen, buf |-> <<>>]
            /\ hArc' = [opened |-> 0, closed |-> 0]
            /\ UNCHANGED <<phase, filenames>>
       ELSE LET l == ListNames(rar.headers, 0, filenames)
            IN  /\ filenames' = l.names
                /\ phase' = IF l.crash THEN "crashed" ELSE phase
                /\ hArc' = [opened |-> 1, closed |-> IF l.crash THEN 0 ELSE 1]
                /\ ret' = [op |-> "ExtractFilenames", name |-> <<>>, arg |-> Len(filenames),
                           ok |-> ~l.crash, err |-> IF l.crash THEN "crash" ELSE "none",
                           len |-> NoLen, buf |-> <<>>]

\* the header loop of GetFileByName: the position of the first header whose name
\* matches, 0 when RARReadHeaderEx reports the end first
RECURSIVE FindHeader(_, _, _)
FindHeader(headers, filename, i) ==
    IF i > Len(headers) THEN 0
    ELSE IF EqI(HeaderName(headers[i]), filename) THEN i
    ELSE FindHeader(headers, filename, i + 1)

\* variant: the number of gathered bytes is not compared with the declared size
ProcessMatched_NoSizeCheck(h) ==
    IF h.UnpSizeHigh # 0 THEN [res |-> 1, data |-> <<>>]
    ELSE [res |-> h.res, data |-> h.data]

\* res after the matched header h was handled, and the bytes gathered by the callback
ProcessMatched(h) ==
    IF h.UnpSizeHigh # 0 THEN [res |-> 1, data |-> <<>>]
    ELSE [res |-> IF h.UnpSize # Len(h.data) THEN 1 ELSE h.res, data |-> h.data]

\* *len = data.size() - 2
FallbackLen(size) == size - 2

\* UnRarDll::GetFileByName; appendOk: whether AppendChecked of the three zero bytes succeeds
GetFileByName(hasPath, filename, hasLen, appendOk) ==
    /\ phase = "live"
    /\ calls' = <<>>
    /\ UNCHANGED <<format, phase, data_, ar_, fileInfos_, fallback, RARGetDllVersion, dec, opens,
                   acquired, released, lastOpen, memo, rar, filenames>>
    /\ IF ~EngineUsable(hasPath) \/ ~rar.openOk
       THEN /\ ret' = [op |-> "GetFileByName", name |-> filename, arg |-> 0, ok |-> FALSE,
                       err |-> "unusable", len |-> NoLen, buf |-> <<>>]
            /\ hArc' = [opened |-> 0, closed |-> 0]
       ELSE LET i == FindHeader(rar.headers, filename, 1)
                p == IF i = 0 THEN [res |-> 1, data |-> <<>>] ELSE ProcessMatched(rar.headers[i])
                data == IF appendOk THEN p.data \o <<0, 0, 0>> ELSE p.data
                res == IF i # 0 /\ ~appendOk THEN 1 ELSE p.res
            IN  /\ hArc' = [opened |-> 1, closed |-> 1]
                /\ ret' = IF res # 0
                          THEN [op |-> "GetFileByName", name |-> filename, arg |-> i,
                                ok |-> FALSE, err |-> "failed", len |-> NoLen, buf |-> <<>>]
                          ELSE [op |-> "GetFileByName", name |-> filename, arg |-> i,
                                ok |-> TRUE, err |-> "none",
                                len |-> IF hasLen THEN FallbackLen(Len(data)) ELSE NoLen,
                                buf |-> data]

InitFallback ==
    /\ format = "Rar"
    /\ phase = "live"
    /\ data_ = Null
    /\ ar_ = Null
    /\ fileInfos_ = <<>>
    /\ fallback = 1
    /\ RARGetDllVersion \in DllVersions
    /\ dec = NoDecoder
    /\ opens = 0
    /\ acquired = <<>>
    /\ released = <<>>
    /\ lastOpen = NoOpen
    /\ ret = NoRet
    /\ calls = <<>>
    /\ memo = NoMemo
    /\ rar \in RarArchives
    /\ filenames = <<>>
    /\ hArc = [opened |-> 0, closed |-> 0]

NextFallback ==
    \/ \E hasPath \in BOOLEAN : ExtractFilenames(hasPath)
    \/ \E hasPath \in BOOLEAN, filename \in QueryNames, hasLen \in BOOLEAN, appendOk \in BOOLEAN :
           GetFileByName(hasPath, filename, hasLen, appendOk)

SpecFallback == InitFallback /\ [][NextFallback]_vars

\* ExtractFilenames on a list the caller filled before: the names of the headers the
\* engine can yield, in every order, up to one name more than an archive holds
RecordedNames == {HeaderName(HeaderMaster[i]) : i \in 1..Len(HeaderMaster)}

NameLists == UNION {[1..n -> RecordedNames] : n \in 0..(MaxHeaders + 1)}

InitNames ==
    /\ format = "Rar"
    /\ phase = "live"
    /\ data_ = Null
    /\ ar_ = Null
    /\ fileInfos_ = <<>>
    /\ fallback = 1
    /\ RARGetDllVersion \in DllVersions
    /\ dec = NoDecoder
    /\ opens = 0
    /\ acquired = <<>>
    /\ released = <<>>
    /\ lastOpen = NoOpen
    /\ ret = NoRet
    /\ calls = <<>>
    /\ memo = NoMemo
    /\ rar \in RarArchives
    /\ filenames \in NameLists
    /\ hArc = [opened |-> 0, closed |-> 0]

NextNames == \E hasPath \in BOOLEAN : ExtractFilenames(hasPath)

SpecNames == InitNames /\ [][NextNames]_vars

-----------------------------------------------------------------------------
(* Properties *)

IsExtract(r) == r.op \in {"GetFileDataById", "GetFileDataByName"}

LocalErrors == {"notfound", "overflow", "seek", "decode"}

\* the decoder's seek and decompress were both called and both succeeded
DecoderSucceeded(cs) == Len(cs) = 2 /\ cs[1].ok /\ cs[2].ok

\* the records Open is to build for container c
TableOf(c) == [i \in 1..Len(c.entries) |-> NewFileInfo(c, i, i - 1)]

\* C1: if the enumeration of entries ends on a structural error, Open returns false
\* and the entry table holds no entries
C1_AllOrNothing ==
    (lastOpen.stage = "parsed" /\ lastOpen.tail = "error")
        => (~lastOpen.ret /\ fileInfos_ = <<>>)

\* C2: a Rar handle whose primary decoder fails, with the fallback engine loaded in a
\* version >= RAR_DLL_VERSION: Open returns true, the listing is not empty and holds no
\* backslash, and extraction by a listed name in any letter case returns bytes
C2_FallbackActivation ==
    (format = "Rar" /\ lastOpen.stage \in {"openfail", "eofAtOpen"}
        /\ RARGetDllVersion >= RAR_DLL_VERSION)
        => /\ lastOpen.ret
           /\ fileInfos_ # <<>>
           /\ \A i \in 1..Len(fileInfos_) : \A k \in 1..Len(fileInfos_[i].name) :
                  fileInfos_[i].name[k] # "\\"
           /\ (ret.op = "GetFileDataByName"
                 /\ \E i \in 1..Len(fileInfos_) : EqI(fileInfos_[i].name, ret.name))
                  => ret.ok

\* C3: after a successful Open the table holds exactly one record per entry the decoder
\* reported, in order, the record at position i has id i, and the assertion of
\* GetFileDataById never fails
C3_DenseIds ==
    /\ phase # "crashed"
    /\ lastOpen.ret =>
          /\ Len(fileInfos_) = lastOpen.parsed
          /\ fileInfos_ = TableOf(dec.c)
          /\ \A i \in 1..Len(fileInfos_) : fileInfos_[i].fileId = i - 1

\* C4: when UnRarDll::GetFileByName succeeds for an entry whose header declares the
\* unpacked size n, the length it reports is n and the buffer holds the n data bytes
\* followed by three zero bytes
C4_FallbackPadding ==
    (ret.op = "GetFileByName" /\ ret.ok) =>
        LET h == rar.headers[ret.arg]
        IN  /\ ret.len \in {h.UnpSize, NoLen}
            /\ ret.buf = h.data \o <<0, 0, 0>>
            /\ Len(ret.buf) = h.UnpSize + 3

Count(log, x) == Cardinality({i \in 1..Len(log) : log[i] = x})

Position(log, x) == CHOOSE i \in 1..Len(log) : log[i] = x

\* C5: once the handle is destroyed, every stream and decoder it acquired has been
\* released exactly once, each decoder before its stream
C5_ReleasedOnce ==
    phase = "destroyed" =>
        /\ \A i \in 1..Len(acquired) : Count(released, acquired[i]) = 1
        /\ \A i \in 1..Len(released) : Count(released, released[i]) = 1
        /\ \A k \in 1..opens :
              (Count(released, <<"ar", k>>) = 1 /\ Count(released, <<"stream", k>>) = 1)
                  => Position(released, <<"ar", k>>) < Position(released, <<"stream", k>>)

\* C6: once the handle has released its decoder and stream, every later extraction by
\* id, extraction by name and listing reports failure and calls neither the released
\* decoder nor the released stream
C6_CloseThenUse ==
    (phase = "destroyed" /\ released # <<>> /\ (IsExtract(ret) \/ ret.op = "GetFileInfos")) =>
        /\ ~ret.ok
        /\ \A i \in 1..Len(calls) : Count(released, <<"ar", calls[i].ar>>) = 0

\* C7: Open returns false when the decoder reports end-of-data with no entry parsed,
\* true when it reports end-of-data after at least one entry, and never returns true
\* with an empty table
C7_ZeroEntries ==
    /\ (lastOpen.stage = "eofAtOpen" \/ (lastOpen.stage = "parsed" /\ lastOpen.tail = "eof"
                                           /\ lastOpen.parsed = 0))
          => ~lastOpen.ret
    /\ (lastOpen.stage = "parsed" /\ lastOpen.tail = "eof" /\ lastOpen.parsed >= 1)
          => lastOpen.ret
    /\ lastOpen.ret => fileInfos_ # <<>>

\* C8: when the decoder's seek and decompress both succeed, the extraction returns a
\* buffer of the entry's bytes followed by three zero bytes, and the reported length is
\* the recorded uncompressed size (the three bytes are not counted)
C8_RoundTrip ==
    (IsExtract(ret) /\ DecoderSucceeded(calls)) =>
        LET size == fileInfos_[ret.arg + 1].fileSizeUncompressed
        IN  /\ ret.ok
            /\ ret.len \in {size, NoLen}
            /\ Len(ret.buf) = size + 3
            /\ SubSeq(ret.buf, 1, size) = SubSeq(dec.c.entries[dec.cur].data, 1, size)
            /\ ret.buf[size + 1] = 0 /\ ret.buf[size + 2] = 0 /\ ret.buf[size + 3] = 0

\* a 0-byte entry was extracted: a result of length 0 that is not a failure
C8_Witness ==
    /\ IsExtract(ret) /\ ret.ok /\ ret.len = 0 /\ ret.buf = <<0, 0, 0>>
    /\ fileInfos_[ret.arg + 1].fileSizeUncompressed = 0

\* a later call for the remembered id gave the remembered result
SameAsRemembered ==
    /\ ret.ok = memo.ok
    /\ ret.buf = memo.buf
    /\ (ret.len # NoLen /\ memo.len # NoLen) => ret.len = memo.len

\* C9 as claimed: on one open handle every extraction of an id returns what an earlier
\* extraction of that id returned
C9_Original ==
    (memo.set /\ IsExtract(ret) /\ ret.arg = memo.id) => SameAsRemembered

\* C9: on one open handle every extraction of an id whose buffer was allocated returns
\* what any earlier extraction of that id whose buffer was allocated returned, whatever
\* was extracted in between
C9_Idempotent ==
    (memo.set /\ IsExtract(ret) /\ ret.arg = memo.id
        /\ ret.err # "nomem" /\ memo.err # "nomem") => SameAsRemembered

\* an id was extracted, another id was asked for, and the first id was extracted again
C9_Witness ==
    /\ memo.set /\ memo.ok /\ memo.other
    /\ IsExtract(ret) /\ ret.arg = memo.id /\ ret.ok /\ Len(ret.buf) > 3

\* what the decoder gives for the entry a record points at, from any cursor position
DecoderCan(d, fileInfo) ==
    LET sk == ar_parse_entry_at(d, fileInfo.filePos)
    IN  sk.ok /\ ar_entry_uncompress(sk.d, fileInfo.fileSizeUncompressed).ok

\* the next call for any other valid entry: it succeeds when the decoder's seek and
\* decompress succeed, and they are called and succeed when the decoder can deliver the
\* entry, its size plus the padding fits size_t and the buffer is allocated
OthersExtractable ==
    \A id \in 0..(Len(fileInfos_) - 1) : \A hasLen \in BOOLEAN, mallocOk \in BOOLEAN :
        LET fileInfo == fileInfos_[id + 1]
            r == ExtractById(ar_, fileInfos_, dec, id, hasLen, mallocOk)
        IN  (id # ret.arg /\ fileInfo.fileId = id) =>
                /\ DecoderSucceeded(r.calls) => r.ok
                /\ (DecoderCan(dec, fileInfo) /\ mallocOk
                      /\ fileInfo.fileSizeUncompressed + PadBytes <= SIZE_MAX)
                       => DecoderSucceeded(r.calls)

\* C10: after an extraction that fails with not-found, size overflow, seek failure or
\* decode failure, the decoder reference and the entry table are those Open left, and
\* the next extraction of any other valid entry succeeds when the decoder's seek and
\* decompress succeed for it
C10_LocalErrors ==
    (IsExtract(ret) /\ ~ret.ok /\ ret.err \in LocalErrors)
        => (ar_ = lastOpen.ar /\ fileInfos_ = lastOpen.table /\ OthersExtractable)

\* an extraction failed in the decoder while the table holds another entry that the
\* decoder can extract
C10_Witness ==
    /\ IsExtract(ret) /\ ~ret.ok /\ ret.err = "decode" /\ ar_ # Null
    /\ \E id \in 0..(Len(fileInfos_) - 1) :
           id # ret.arg /\ DecoderCan(dec, fileInfos_[id + 1])
             /\ ExtractById(ar_, fileInfos_, dec, id, TRUE, TRUE).ok

\* C11: an extraction whose id is not below the number of entries (one past the last
\* id and the not-found value of a name lookup included) fails as not found without a
\* crash and without any decoder call; an extraction by a name that matches no entry
\* looks up the not-found value and fails the same way
C11_OutOfRange ==
    /\ (IsExtract(ret) /\ ret.arg >= Len(fileInfos_))
          => (~ret.ok /\ ret.err = "notfound" /\ calls = <<>> /\ phase # "crashed")
    /\ (ret.op = "GetFileDataByName"
          /\ \A i \in 1..Len(fileInfos_) : ~EqI(fileInfos_[i].name, ret.name))
          => (ret.arg = NotFound /\ ~ret.ok /\ ret.err = "notfound" /\ calls = <<>>)

\* on an open handle with entries, the id one past the last was asked for
C11_Witness ==
    /\ ret.op = "GetFileDataById" /\ ar_ # Null /\ fileInfos_ # <<>>
    /\ ret.arg = Len(fileInfos_) /\ ~ret.ok

\* C12: on a Zip, SevenZip or Tar handle, when the stream is null, the decoder cannot
\* be opened or the decoder is at end-of-data right after opening, Open returns false,
\* the table stays empty, and every later extraction and GetComment call fails
C12_TerminalFailure ==
    (format # "Rar" /\ lastOpen.stage \in {"null", "openfail", "eofAtOpen"}) =>
        /\ ~lastOpen.ret
        /\ fileInfos_ = <<>>
        /\ (IsExtract(ret) \/ ret.op = "GetComment") => ~ret.ok

\* the positions of the table whose name is the query up to letter case
Matches(name) == {i \in 1..Len(fileInfos_) : EqI(fileInfos_[i].name, name)}

\* the first of them in parse order, 0 when there is none
FirstMatch(name) ==
    IF Matches(name) = {} THEN 0
    ELSE CHOOSE i \in Matches(name) : \A j \in Matches(name) : i <= j

\* C13: a lookup by name gives the id of the first entry in parse order whose name is
\* the query up to letter case, and (size_t)-1 when there is none; in the table Open
\* built this is the smallest id among the matching entries, and extraction by name
\* seeks to and returns the bytes of that entry
C13_FirstMatch ==
    (ret.op \in {"GetFileId", "GetFileDataByName"}) =>
        LET p == FirstMatch(ret.name)
        IN  /\ p = 0 => ret.arg = NotFound
            /\ p # 0 => ret.arg = fileInfos_[p].fileId
            /\ (p # 0 /\ fileInfos_ = TableOf(dec.c)) =>
                   /\ ret.arg = p - 1
                   /\ \A j \in Matches(ret.name) : ret.arg <= fileInfos_[j].fileId
                   /\ calls # <<>> => calls[1].arg = ar_entry_get_offset(dec.c, p)
                   /\ (ret.op = "GetFileDataByName" /\ ret.ok) =>
                          SubSeq(ret.buf, 1, Len(ret.buf) - PadBytes)
                                    = SubSeq(dec.c.entries[p].data, 1, dec.c.entries[p].size)

\* two entries share a name up to letter case, and an extraction by a name spelled
\* unlike the first of them returned its bytes
C13_Witness ==
    /\ ret.op = "GetFileDataByName" /\ ret.ok /\ ret.arg = 0
    /\ Cardinality(Matches(ret.name)) = 2
    /\ fileInfos_[1].name # ret.name
    /\ Len(ret.buf) > PadBytes

\* the positions of the headers whose name, separators translated, is the query up to
\* letter case
HeaderMatches(name) ==
    {i \in 1..Len(rar.headers) : ToLower(HeaderName(rar.headers[i])) = ToLower(name)}

\* C14: UnRarDll::GetFileByName returns no bytes when no header name matches the query
\* up to letter case, when the first matching header has a non-zero UnpSizeHigh, when
\* the bytes gathered by the callback are not as many as UnpSize, and when
\* RARProcessFile reports an error; whenever the engine opened the archive for the
\* call, the call closed it exactly once
C14_FallbackFailures ==
    (ret.op = "GetFileByName") =>
        /\ HeaderMatches(ret.name) = {} => ~ret.ok
        /\ HeaderMatches(ret.name) # {} =>
               LET h == rar.headers[CHOOSE i \in HeaderMatches(ret.name) :
                                       \A j \in HeaderMatches(ret.name) : i <= j]
               IN  (h.UnpSizeHigh # 0 \/ Len(h.data) # h.UnpSize \/ h.res # 0) => ~ret.ok
        /\ hArc.opened = 1 => hArc.closed = 1
        /\ (RARGetDllVersion >= RAR_DLL_VERSION /\ rar.openOk /\ ret.err # "unusable")
               => hArc.opened = 1

\* the engine opened the archive, the matched header declared more bytes than the
\* callback gathered, and the call failed after closing the archive
C14_Witness ==
    /\ ret.op = "GetFileByName" /\ ~ret.ok /\ ret.arg # 0
    /\ hArc = [opened |-> 1, closed |-> 1]
    /\ Len(rar.headers[ret.arg].data) # rar.headers[ret.arg].UnpSize
    /\ rar.headers[ret.arg].UnpSizeHigh = 0 /\ rar.headers[ret.arg].res = 0

C16_OverflowGuard ==
    /\ (IsExtract(ret) /\ ret.arg < Len(fileInfos_)) =>
          LET size == fileInfos_[ret.arg + 1].fileSizeUncompressed
          IN  /\ size > SIZE_MAX - PadBytes =>
                     /\ ~ret.ok /\ ret.buf = <<>>
                     /\ \A i \in 1..Len(calls) : calls[i].fn # "ar_entry_uncompress"
              /\ ret.ok => (size + PadBytes <= SIZE_MAX /\ Len(ret.buf) = size + PadBytes)
    /\ \A size \in 0..SIZE_MAX : ~SizeOverflows(size) => AllocSize(size) = size + PadBytes

\* an entry of size SIZE_MAX - 2 was sought successfully and then refused by the guard
C16_Witness ==
    /\ IsExtract(ret) /\ ret.err = "overflow" /\ Len(calls) = 1 /\ calls[1].ok
    /\ fileInfos_[ret.arg + 1].fileSizeUncompressed = SIZE_MAX - 2

\* the names the headers of the archive yield, separators translated
DerivedNames == [i \in 1..Len(rar.headers) |-> HeaderName(rar.headers[i])]

\* C17: when ExtractFilenames reads an archive of n headers into a list of k names, a
\* recorded name among the first min(k, n) that differs from the derived name at its
\* position is a fatal assertion failure; when they all agree the call succeeds, the
\* recorded names stay and the derived names at positions k..n-1 are appended; a call
\* after a successful one leaves the list as it is
C17_ListConsistency ==
    [][/\ (ret'.op = "ExtractFilenames" /\ hArc'.opened = 1) =>
             LET k == Len(filenames)
                 n == Len(rar.headers)
                 m == IF k < n THEN k ELSE n
             IN  IF \E i \in 1..m : filenames[i] # DerivedNames[i]
                 THEN phase' = "crashed" /\ ~ret'.ok
                 ELSE /\ phase' = phase /\ ret'.ok
                      /\ filenames' = filenames \o SubSeq(DerivedNames, k + 1, n)
       /\ (ret.op = "ExtractFilenames" /\ ret.ok) => filenames' = filenames]_vars

\* a list holding fewer names than the archive has headers, all of them as derived,
\* was completed by the call
C17_Witness ==
    /\ ret.op = "ExtractFilenames" /\ ret.ok
    /\ 0 < ret.arg /\ ret.arg < Len(rar.headers)
    /\ filenames = DerivedNames

\* C18: every ar_entry_uncompress call of an operation is an extraction's, directly
\* follows, in the same call, a successful ar_parse_entry_at on the same decoder to the
\* offset recorded for the requested id, and is passed the size recorded for that id
C18_SeekBeforeDecompress ==
    \A i \in 1..Len(calls) :
        calls[i].fn = "ar_entry_uncompress" =>
            /\ IsExtract(ret) /\ ret.arg < Len(fileInfos_)
            /\ i > 1
            /\ calls[i - 1].fn = "ar_parse_entry_at" /\ calls[i - 1].ok
            /\ calls[i - 1].ar = ar_ /\ calls[i].ar = ar_
            /\ calls[i - 1].arg = fileInfos_[ret.arg + 1].filePos
            /\ calls[i].arg = fileInfos_[ret.arg + 1].fileSizeUncompressed

\* an extraction by name sought its entry and decompressed a non-empty entry
C18_Witness ==
    /\ ret.op = "GetFileDataByName" /\ Len(calls) = 2
    /\ calls[1].fn = "ar_parse_entry_at" /\ calls[1].ok
    /\ calls[2].fn = "ar_entry_uncompress" /\ calls[2].ok /\ calls[2].arg > 0

\* C19: a step that is not an Open call (a lookup, an extraction by id or by name,
\* GetComment, a listing) leaves the entry table as it is: no record is added, removed,
\* moved or changed
C19_TableReadOnly == [][opens' = opens => fileInfos_' = fileInfos_]_vars

\* on a handle with two entries, an extraction that decompressed bytes was followed by
\* a GetComment call that returned the comment, the table still the one Open built
C19_Witness ==
    /\ ret.op = "GetComment" /\ ret.ok /\ dec.done > 0
    /\ Len(fileInfos_) = 2 /\ fileInfos_ = TableOf(dec.c)

====
